---- MODULE Spec2Model ----
(***************************************************************************)
(* LifeSnaps healthcare dataset creation (lifesnaps_healthcare.py) and the *)
(* prompt templating it calls (data_processing.py): per-source shuffle and *)
(* split, combination, one templated corpus per system prompt, and the     *)
(* optional push of the saved corpora.                                     *)
(***************************************************************************)
EXTENDS Integers, Sequences, FiniteSets, TLC

(***************************************************************************)
(* Bounds of the model.                                                    *)
(***************************************************************************)
\* most rows a CSV file holds in the record-level specifications
MaxRows == 2
\* calls of load_all_csv_files compared by the repeated-load specification
MaxRuns == 2
\* most rows of the first file in the size-only specification of the split
MaxRowsArith == 90

(***************************************************************************)
(* Configuration (lifesnaps_healthcare.py, lines 35-48).                   *)
(***************************************************************************)
NoneVal == "None"

\* the keys of CSV_FILES, in the order the dict is written
CSV_FILES == <<"sleep_disorder", "stress_resilience">>

ALL_SYS_PROMPTS == <<"gen", "tac", "tabc", "tabc_long">>

OUTPUT_DIR == "./data/lifesnaps_processed"

DEFAULT_SEED == 42

\* --train_ratio as typed on the command line, in tenths: 8 stands for 0.8
DEFAULT_TRAIN_RATIO == 8

\* the denominator of a ratio written with one decimal
Tenths == 10

(***************************************************************************)
(* int(len(df) * train_ratio): the ratio is a double, the product is a     *)
(* double multiplication (round to nearest, ties to even) and int()        *)
(* truncates.  The 53-bit significand of a double is kept in three limbs,  *)
(* <<h, m, l>> for h * 2^36 + m * 2^18 + l, with the number e of bits      *)
(* after the binary point: the value is the significand times 2^(-e).      *)
(* The limbs keep every intermediate below 2^31 for row counts below 256.  *)
(***************************************************************************)
\* 2^18, the base of a limb
Limb == 2 ^ 18

RECURSIVE LeadingZeros(_, _)
\* the zero digits after the binary point of r/q before its first one, 0 < r < q
LeadingZeros(r, q) == IF 2 * r >= q THEN 0 ELSE 1 + LeadingZeros(2 * r, q)

\* the bits of h: 0 for h = 0
BitLen(h) == CHOOSE k \in 0..30 : h < 2 ^ k /\ (k = 0 \/ h >= 2 ^ (k - 1))

\* a significand plus one
IncLimbs(x) ==
    IF x.l + 1 < Limb THEN [x EXCEPT !.l = x.l + 1]
    ELSE IF x.m + 1 < Limb THEN [x EXCEPT !.l = 0, !.m = x.m + 1]
    ELSE [x EXCEPT !.l = 0, !.m = 0, !.h = x.h + 1]

\* float("0.p"): the double nearest to p/q, for 0 < p < q <= 100
FloatOfRatio(p, q) ==
    LET z  == LeadingZeros(p, q)
        r0 == p * 2 ^ z
        h  == (r0 * 2 ^ 17) \div q
        r1 == (r0 * 2 ^ 17) % q
        m  == (r1 * Limb) \div q
        r2 == (r1 * Limb) % q
        l  == (r2 * Limb) \div q
        r3 == (r2 * Limb) % q
        guard  == (2 * r3) \div q
        sticky == (2 * r3) % q # 0
        up     == guard = 1 /\ (sticky \/ l % 2 = 1)
        x      == [h |-> h, m |-> m, l |-> l, e |-> z + 53]
    IN  IF up THEN IncLimbs(x) ELSE x

\* n * f in double arithmetic, for 0 <= n < 256
FloatMulInt(n, f) ==
    LET pl == f.l * n
        pm == f.m * n + pl \div Limb
        ph == f.h * n + pm \div Limb
        \* the exact product
        x  == [h |-> ph, m |-> pm % Limb, l |-> pl % Limb, e |-> f.e]
        \* the bits beyond 53 that the result cannot hold
        s  == IF BitLen(ph) > 17 THEN BitLen(ph) - 17 ELSE 0
        guard  == (x.l \div 2 ^ (s - 1)) % 2
        sticky == x.l % 2 ^ (s - 1) # 0
        cut == [h |-> x.h \div 2 ^ s,
                m |-> x.m \div 2 ^ s + (x.h % 2 ^ s) * 2 ^ (18 - s),
                l |-> x.l \div 2 ^ s + (x.m % 2 ^ s) * 2 ^ (18 - s),
                e |-> f.e - s]
        up  == guard = 1 /\ (sticky \/ cut.l % 2 = 1)
    IN  IF s = 0 THEN x ELSE IF up THEN IncLimbs(cut) ELSE cut

\* int(f) for a double 0 <= f < 256: the digits before the binary point
IntOfFloat(f) ==
    IF f.e - 36 >= 30 THEN 0 ELSE f.h \div 2 ^ (f.e - 36)

\* split_idx = int(len(df) * train_ratio), train_ratio given in tenths
split_idx(n, train_ratio) ==
    IntOfFloat(FloatMulInt(n, FloatOfRatio(train_ratio, Tenths)))


(***************************************************************************)
(* The CSV files.  A file is missing or holds up to MaxRows rows; the rows *)
(* of one run share a header, which names the text column(s).  The rows of *)
(* a file differ in their text, so a record names its file and its row.    *)
(***************************************************************************)
Digit(d) == <<"0", "1", "2", "3", "4", "5", "6", "7", "8", "9">>[d + 1]

\* the text columns a CSV header can have
Headers == {"problem", "question", "both", "none"}

\* the answer cell as pandas reads it: an int label or a float target
AnswerCell(task_name, i) ==
    IF task_name = "sleep_disorder"
    THEN [kind |-> "int", v |-> i % 2]
    ELSE [kind |-> "float", tenths |-> 2 + 16 * (i - 1)]

ProblemText(task_name, i) == task_name \o " problem " \o Digit(i)

QuestionText(task_name, i) == task_name \o " question " \o Digit(i)

\* row i of the file of task_name under a header
CsvRow(task_name, i, header) ==
    LET a == AnswerCell(task_name, i)
        s == "LifeSnaps_" \o task_name
    IN  CASE header = "problem" ->
               [problem |-> ProblemText(task_name, i), answer |-> a, source |-> s]
          [] header = "question" ->
               [question |-> QuestionText(task_name, i), answer |-> a, source |-> s]
          [] header = "both" ->
               [question |-> QuestionText(task_name, i),
                problem |-> ProblemText(task_name, i), answer |-> a, source |-> s]
          [] OTHER -> [answer |-> a, source |-> s]

\* the file of task_name with n rows
CsvFile(task_name, n, header) ==
    [exists |-> TRUE, rows |-> [i \in 1..n |-> CsvRow(task_name, i, header)]]

MissingFile == [exists |-> FALSE, rows |-> <<>>]

TaskNames == {CSV_FILES[k] : k \in 1..Len(CSV_FILES)}

FilesOf(task_name, header) ==
    {MissingFile} \cup {CsvFile(task_name, n, header) : n \in 0..MaxRows}

\* every file system the model starts from
FileSystems ==
    UNION {{fs \in [TaskNames -> UNION {FilesOf(t, header) : t \in TaskNames}] :
               \A t \in TaskNames : fs[t] \in FilesOf(t, header)}
           : header \in Headers}

(***************************************************************************)
(* The seeded shuffles.  df.sample(frac=1, random_state=seed) and          *)
(* Dataset.shuffle(seed=seed) each build a fresh generator from the seed   *)
(* and draw one permutation of the row numbers from it: the permutation is *)
(* a function of the generator kind, the seed and the length.  Which       *)
(* function is the library's affair: prng holds the permutations seen so   *)
(* far, and a first use of a (kind, seed, length) may draw any.            *)
(***************************************************************************)
PrngKey(kind, seed, n) == <<kind, seed, n>>

\* the permutations a generator seeded with seed may give for n rows
SeededPermutations(prng, kind, seed, n) ==
    IF PrngKey(kind, seed, n) \in DOMAIN prng
    THEN {prng[PrngKey(kind, seed, n)]}
    ELSE Permutations(1..n)

Remember(prng, kind, seed, n, perm) == (PrngKey(kind, seed, n) :> perm) @@ prng

\* rows taken in the order perm gives
ApplyPerm(rows, perm) == [i \in 1..Len(rows) |-> rows[perm[i]]]

RECURSIVE Concat(_)
\* concatenate_datasets
Concat(list) == IF list = <<>> THEN <<>> ELSE Head(list) \o Concat(Tail(list))

(***************************************************************************)
(* load_single_csv                                                         *)
(***************************************************************************)
\* df['answer'].astype(str) of one cell
astype_str(cell) ==
    IF cell.kind = "int" THEN Digit(cell.v)
    ELSE Digit(cell.tenths \div 10) \o "." \o Digit(cell.tenths % 10)

\* lines 74-75: the answer column as strings
AnswerAsStr(rows) ==
    [i \in 1..Len(rows) |->
        IF "answer" \in DOMAIN rows[i]
        THEN [rows[i] EXCEPT !.answer = astype_str(rows[i].answer)]
        ELSE rows[i]]

\* df.sample(frac=1) with no random_state: any permutation, every time
sample_unseeded(df, seed, prng) ==
    {[df |-> ApplyPerm(df, perm),
      prng |-> Remember(prng, "pandas", seed, Len(df), perm)]
     : perm \in Permutations(1..Len(df))}

\* line 78: the outcomes of df.sample(frac=1, random_state=seed), each with
\* the generator table it leaves
sample(df, seed, prng) ==
    {[df |-> ApplyPerm(df, perm),
      prng |-> Remember(prng, "pandas", seed, Len(df), perm)]
     : perm \in SeededPermutations(prng, "pandas", seed, Len(df))}

\* lines 81-85: the split of a shuffled frame
split(df, train_ratio) ==
    LET idx == split_idx(Len(df), train_ratio)
    IN  [train |-> SubSeq(df, 1, idx), test |-> SubSeq(df, idx + 1, Len(df))]

\* the outcomes of load_single_csv: pd.read_csv raises on a missing file
load_single_csv(file, train_ratio, seed, prng) ==
    IF ~file.exists
    THEN {[raised |-> "FileNotFoundError", prng |-> prng]}
    ELSE {[raised |-> NoneVal, train |-> split(s.df, train_ratio).train,
           test |-> split(s.df, train_ratio).test, prng |-> s.prng]
          : s \in sample(AnswerAsStr(file.rows), seed, prng)}

(***************************************************************************)
(* load_all_csv_files                                                      *)
(***************************************************************************)
\* no existence check: every configured file is read
skips_never(fs, task_name) == FALSE

\* line 94: a file that is not there is skipped
skips(fs, task_name) == ~fs[task_name].exists

\* what the loop has built so far
EmptyLoad(prng) ==
    [raised |-> NoneVal, names |-> <<>>, skipped |-> <<>>,
     all_train |-> <<>>, all_test |-> <<>>, prng |-> prng]

RECURSIVE LoadLoop(_, _, _, _, _)
\* lines 93-101 from the k-th entry of csv_files on: the outcomes of the loop
LoadLoop(fs, train_ratio, seed, k, acc) ==
    IF k > Len(CSV_FILES) THEN {acc}
    ELSE LET task_name == CSV_FILES[k]
         IN  IF skips(fs, task_name)
             THEN LoadLoop(fs, train_ratio, seed, k + 1,
                           [acc EXCEPT !.skipped = Append(@, task_name)])
             ELSE UNION {
                    IF one.raised # NoneVal
                    THEN {[acc EXCEPT !.raised = one.raised]}
                    ELSE LoadLoop(fs, train_ratio, seed, k + 1,
                                  [acc EXCEPT !.names = Append(@, task_name),
                                              !.all_train = Append(@, one.train),
                                              !.all_test = Append(@, one.test),
                                              !.prng = one.prng])
                    : one \in load_single_csv(fs[task_name], train_ratio, seed,
                                              acc.prng)}

\* lines 112-113: the outcomes of Dataset.shuffle(seed=seed)
shuffle(ds, seed, prng) ==
    {[ds |-> ApplyPerm(ds, perm),
      prng |-> Remember(prng, "datasets", seed, Len(ds), perm)]
     : perm \in SeededPermutations(prng, "datasets", seed, Len(ds))}

\* lines 103-115: what load_all_csv_files returns for one outcome of its loop;
\* None is the empty function
Combine(acc, seed) ==
    IF acc.raised # NoneVal \/ acc.all_train = <<>>
    THEN {acc @@ [result |-> <<>>]}
    ELSE UNION {{[acc EXCEPT !.prng = te.prng]
                 @@ [result |-> [train |-> tr.ds, test |-> te.ds]]
                 : te \in shuffle(Concat(acc.all_test), seed, tr.prng)}
                : tr \in shuffle(Concat(acc.all_train), seed, acc.prng)}

\* the outcomes of load_all_csv_files(csv_files, train_ratio, seed)
load_all_csv_files(fs, train_ratio, seed, prng) ==
    UNION {Combine(acc, seed)
           : acc \in LoadLoop(fs, train_ratio, seed, 1, EmptyLoad(prng))}

(***************************************************************************)
(* data_processing.py: process_dataset and make_generation_dataset         *)
(***************************************************************************)
\* system_prompts.get_sys_prompt: the system text of a named prompt
get_sys_prompt(sys_prompt_name) == "<system prompt " \o sys_prompt_name \o ">"

\* the system prompt written into the user turn as well
make_generation_conversation_sys_in_user(example, sys_prompt) ==
    IF "question" \in DOMAIN example
    THEN [raised |-> NoneVal,
          prompt |-> <<[role |-> "system", content |-> sys_prompt],
                       [role |-> "user",
                        content |-> sys_prompt \o "\n\nPROBLEM: "
                                    \o example.question \o "\n\n"]>>]
    ELSE IF "problem" \in DOMAIN example
    THEN [raised |-> NoneVal,
          prompt |-> <<[role |-> "system", content |-> sys_prompt],
                       [role |-> "user",
                        content |-> sys_prompt \o "\n\nPROBLEM: "
                                    \o example.problem \o "\n\n"]>>]
    ELSE [raised |-> "KeyError", prompt |-> <<>>]

\* the two columns looked up in the other order: problem before question
make_generation_conversation_problem_first(example, sys_prompt) ==
    IF "problem" \in DOMAIN example
    THEN [raised |-> NoneVal,
          prompt |-> <<[role |-> "system", content |-> sys_prompt],
                       [role |-> "user",
                        content |-> "\n\nPROBLEM: " \o example.problem \o "\n\n"]>>]
    ELSE IF "question" \in DOMAIN example
    THEN [raised |-> NoneVal,
          prompt |-> <<[role |-> "system", content |-> sys_prompt],
                       [role |-> "user",
                        content |-> "\n\nPROBLEM: " \o example.question \o "\n\n"]>>]
    ELSE [raised |-> "KeyError", prompt |-> <<>>]

\* lines 50-64: the columns the mapped function returns for one example;
\* example['problem'] raises KeyError when the column is not there
make_generation_conversation(example, sys_prompt) ==
    IF "question" \in DOMAIN example
    THEN [raised |-> NoneVal,
          prompt |-> <<[role |-> "system", content |-> sys_prompt],
                       [role |-> "user",
                        content |-> "\n\nPROBLEM: " \o example.question \o "\n\n"]>>]
    ELSE IF "problem" \in DOMAIN example
    THEN [raised |-> NoneVal,
          prompt |-> <<[role |-> "system", content |-> sys_prompt],
                       [role |-> "user",
                        content |-> "\n\nPROBLEM: " \o example.problem \o "\n\n"]>>]
    ELSE [raised |-> "KeyError", prompt |-> <<>>]

\* Dataset.map on one example: the returned columns are written over the example
MapExample(example, sys_prompt) ==
    [c \in DOMAIN example \cup {"prompt"} |->
        IF c = "prompt"
        THEN make_generation_conversation(example, sys_prompt).prompt
        ELSE example[c]]

\* line 66 on one split: dataset.map(make_generation_conversation)
MapSplit(ds, sys_prompt) ==
    IF \E i \in 1..Len(ds) :
          make_generation_conversation(ds[i], sys_prompt).raised # NoneVal
    THEN [raised |-> "KeyError", ds |-> <<>>]
    ELSE [raised |-> NoneVal,
          ds |-> [i \in 1..Len(ds) |-> MapExample(ds[i], sys_prompt)]]

\* lines 49-67 on a DatasetDict: every split is mapped, train first
make_generation_dataset(dataset, sys_prompt) ==
    LET tr == MapSplit(dataset.train, sys_prompt)
        te == MapSplit(dataset.test, sys_prompt)
    IN  IF tr.raised # NoneVal \/ te.raised # NoneVal
        THEN [raised |-> "KeyError", dataset |-> <<>>]
        ELSE [raised |-> NoneVal, dataset |-> [train |-> tr.ds, test |-> te.ds]]

\* lines 31-47
process_dataset(dataset, script_args) ==
    LET sys_prompt == get_sys_prompt(script_args.sys_prompt_name)
    IN  IF script_args.task_spec = "gen"
        THEN make_generation_dataset(dataset, sys_prompt)
        ELSE [raised |-> NoneVal, dataset |-> dataset]

(***************************************************************************)
(* create_dataset_for_prompt                                               *)
(***************************************************************************)
\* lines 55-59
ScriptArgs(sys_prompt_name, task_spec) ==
    [sys_prompt_name |-> sys_prompt_name, task_spec |-> task_spec]

\* one save path for every prompt
save_path_shared(output_dir, sys_prompt_name) == output_dir \o "/lifesnaps"

\* line 126: os.path.join(output_dir, f"lifesnaps_{sys_prompt_name}")
save_path(output_dir, sys_prompt_name) ==
    output_dir \o "/lifesnaps_" \o sys_prompt_name

\* what is at a path of the disk: nothing is the empty function
ArtifactAt(disk, path) == IF path \in DOMAIN disk THEN disk[path] ELSE <<>>

\* line 127: processed.save_to_disk(save_path) either writes both splits, or
\* raises OSError having written nothing or the train split alone
save_to_disk(processed, path, disk) ==
    {[raised |-> NoneVal, disk |-> (path :> processed) @@ disk],
     [raised |-> "OSError", disk |-> disk],
     [raised |-> "OSError", disk |-> (path :> [train |-> processed.train]) @@ disk]}

\* lines 118-129: the outcomes of create_dataset_for_prompt
create_dataset_for_prompt(raw, sys_prompt_name, output_dir, disk) ==
    LET script_args == ScriptArgs(sys_prompt_name, "gen")
        processed   == process_dataset(raw, script_args)
        path        == save_path(output_dir, sys_prompt_name)
    IN  IF processed.raised # NoneVal
        THEN {[raised |-> processed.raised, processed |-> <<>>,
               save_path |-> path, disk |-> disk]}
        ELSE {[raised |-> s.raised, processed |-> processed.dataset,
               save_path |-> path, disk |-> s.disk]
              : s \in save_to_disk(processed.dataset, path, disk)}

(***************************************************************************)
(* The state of one run of main().                                         *)
(***************************************************************************)
VARIABLES
    fs,           \* the CSV files: task name -> [exists, rows]
    args,         \* the parsed command line
    pc,           \* where main() is: load, template, push, summary, done, raised
    raw_dataset,  \* the combined raw DatasetDict; None is the empty function
    results,      \* create_datasets_for_all_prompts: one entry per prompt done
    processed,    \* create_dataset_for_single_prompt: the processed DatasetDict
    i,            \* the position of the running for loop
    disk,         \* save path -> what save_to_disk left there
    hub,          \* hub path -> what push_to_hub sent
    log,          \* the lines printed that tell how the run went
    prng,         \* the permutations the seeded generators have given
    raised,       \* the exception that ended the run, or None
    loads,        \* calls of load_all_csv_files so far
    templ_args,   \* the raw_dataset argument of every create_dataset_for_prompt call
    loaded,       \* what the last load_all_csv_files call built
    runs,         \* repeated-load specification: what each call returned
    arith         \* size-only specification of the split

vars == <<fs, args, pc, raw_dataset, results, processed, i, disk, hub, log, prng,
          raised, loads, templ_args, loaded, runs, arith>>

\* the seeds and ratios (in tenths) the runs are started with
Seeds == {DEFAULT_SEED, 7}

TrainRatios == {5, DEFAULT_TRAIN_RATIO}

\* lines 209-224: the command lines of the model
ArgSets ==
    [sys_prompt : {"all"} \cup {ALL_SYS_PROMPTS[k] : k \in 1..Len(ALL_SYS_PROMPTS)},
     train_ratio : TrainRatios, seed : {DEFAULT_SEED},
     output_dir : {OUTPUT_DIR}, push_to_hub : BOOLEAN,
     hub_name : {NoneVal, "user/lifesnaps"}]

NoLoad == EmptyLoad(<<>>) @@ [result |-> <<>>]

ArithIdle == [sizes |-> <<0, 0>>, train_ratio |-> DEFAULT_TRAIN_RATIO, split |-> <<>>]

Init ==
    /\ fs \in FileSystems
    /\ args \in ArgSets
    /\ pc = "load"
    /\ raw_dataset = <<>>
    /\ results = <<>>
    /\ processed = <<>>
    /\ i = 1
    /\ disk = <<>>
    /\ hub = <<>>
    /\ log = <<>>
    /\ prng = <<>>
    /\ raised = NoneVal
    /\ loads = 0
    /\ templ_args = <<>>
    /\ loaded = NoLoad
    /\ runs = <<>>
    /\ arith = ArithIdle

\* lines 95 and 104: what load_all_csv_files prints about missing files
LoadMessages(out) ==
    [k \in 1..Len(out.skipped) |-> "Warning: File not found - " \o out.skipped[k]]
    \o (IF out.raised = NoneVal /\ out.all_train = <<>>
        THEN <<"Error: No valid CSV files found!">> ELSE <<>>)

\* line 244 / line 261: the push is asked for and has a name to push to
WantsPush == args.push_to_hub /\ args.hub_name # NoneVal

(***************************************************************************)
(* lines 143-155 and 184-197: both entry points load the raw data once and *)
(* return None when there is none; main() then goes on to its summary.     *)
(***************************************************************************)
LoadRaw ==
    /\ pc = "load"
    /\ \E out \in load_all_csv_files(fs, args.train_ratio, args.seed, prng) :
          /\ loads' = loads + 1
          /\ loaded' = out
          /\ prng' = out.prng
          /\ log' = log \o LoadMessages(out)
          /\ raw_dataset' = out.result
          /\ raised' = out.raised
          /\ pc' = IF out.raised # NoneVal THEN "raised"
                   ELSE IF out.result = <<>> THEN "summary"
                   ELSE "template"
    /\ i' = 1
    /\ UNCHANGED <<fs, args, results, processed, disk, hub, templ_args, runs, arith>>

\* the loop with the processed corpus assigned back to raw_dataset
LoopBody_in_place ==
    /\ pc = "template"
    /\ args.sys_prompt = "all"
    /\ \E out \in create_dataset_for_prompt(raw_dataset, ALL_SYS_PROMPTS[i],
                                            args.output_dir, disk) :
          /\ disk' = out.disk
          /\ raised' = out.raised
          /\ IF out.raised # NoneVal
             THEN /\ pc' = "raised"
                  /\ UNCHANGED <<results, i, raw_dataset>>
             ELSE /\ raw_dataset' = out.processed
                  /\ results' = Append(results,
                        [name |-> ALL_SYS_PROMPTS[i], path |-> out.save_path,
                         train_size |-> Len(out.processed.train),
                         test_size |-> Len(out.processed.test)])
                  /\ IF i < Len(ALL_SYS_PROMPTS)
                     THEN i' = i + 1 /\ pc' = "template"
                     ELSE i' = 1 /\ pc' = IF WantsPush THEN "push" ELSE "summary"
    /\ templ_args' = Append(templ_args, raw_dataset)
    /\ UNCHANGED <<fs, args, processed, hub, log, prng, loads, loaded, runs, arith>>

(***************************************************************************)
(* lines 163-177: one turn of the loop over ALL_SYS_PROMPTS; an exception  *)
(* of create_dataset_for_prompt is not caught and ends the run.            *)
(***************************************************************************)
LoopBody ==
    /\ pc = "template"
    /\ args.sys_prompt = "all"
    /\ \E out \in create_dataset_for_prompt(raw_dataset, ALL_SYS_PROMPTS[i],
                                            args.output_dir, disk) :
          /\ disk' = out.disk
          /\ raised' = out.raised
          /\ IF out.raised # NoneVal
             THEN /\ pc' = "raised"
                  /\ UNCHANGED <<results, i>>
             ELSE /\ results' = Append(results,
                        [name |-> ALL_SYS_PROMPTS[i], path |-> out.save_path,
                         train_size |-> Len(out.processed.train),
                         test_size |-> Len(out.processed.test)])
                  /\ IF i < Len(ALL_SYS_PROMPTS)
                     THEN i' = i + 1 /\ pc' = "template"
                     ELSE i' = 1 /\ pc' = IF WantsPush THEN "push" ELSE "summary"
    /\ templ_args' = Append(templ_args, raw_dataset)
    /\ UNCHANGED <<fs, args, raw_dataset, processed, hub, log, prng, loads, loaded,
                   runs, arith>>

(***************************************************************************)
(* lines 199-205: the single prompt of create_dataset_for_single_prompt    *)
(***************************************************************************)
SinglePrompt ==
    /\ pc = "template"
    /\ args.sys_prompt # "all"
    /\ \E out \in create_dataset_for_prompt(raw_dataset, args.sys_prompt,
                                            args.output_dir, disk) :
          /\ disk' = out.disk
          /\ raised' = out.raised
          /\ processed' = out.processed
          /\ pc' = IF out.raised # NoneVal THEN "raised"
                   ELSE IF WantsPush THEN "push" ELSE "summary"
    /\ templ_args' = Append(templ_args, raw_dataset)
    /\ UNCHANGED <<fs, args, raw_dataset, results, i, hub, log, prng, loads, loaded,
                   runs, arith>>

(***************************************************************************)
(* lines 248-253: one turn of the push loop over results; push_to_hub      *)
(* either sends the corpus read back from disk or raises, and main() has   *)
(* no handler.                                                             *)
(***************************************************************************)
hub_path(hub_name, prompt_name) == hub_name \o "_" \o prompt_name

PushAll ==
    /\ pc = "push"
    /\ args.sys_prompt = "all"
    /\ LET info == results[i]
           ds   == ArtifactAt(disk, info.path)
           to   == hub_path(args.hub_name, info.name)
       IN  /\ log' = Append(log, "Pushing " \o info.name)
           /\ \/ /\ hub' = (to :> ds) @@ hub
                 /\ raised' = NoneVal
                 /\ IF i < Len(results)
                    THEN i' = i + 1 /\ pc' = "push"
                    ELSE i' = i /\ pc' = "summary"
              \/ /\ raised' = "HubError"
                 /\ pc' = "raised"
                 /\ UNCHANGED <<hub, i>>
    /\ UNCHANGED <<fs, args, raw_dataset, results, processed, disk, prng, loads,
                   templ_args, loaded, runs, arith>>

\* lines 261-264: the push of the single processed corpus
PushSingle ==
    /\ pc = "push"
    /\ args.sys_prompt # "all"
    /\ log' = Append(log, "Pushing " \o args.sys_prompt)
    /\ \/ /\ hub' = (hub_path(args.hub_name, args.sys_prompt) :> processed) @@ hub
          /\ raised' = NoneVal
          /\ pc' = "summary"
       \/ /\ raised' = "HubError"
          /\ pc' = "raised"
          /\ UNCHANGED hub
    /\ UNCHANGED <<fs, args, raw_dataset, results, processed, i, disk, prng, loads,
                   templ_args, loaded, runs, arith>>

\* lines 266-282: the summary main() prints before it returns
Summary ==
    /\ pc = "summary"
    /\ log' = Append(log, "Processing complete!")
    /\ pc' = "done"
    /\ UNCHANGED <<fs, args, raw_dataset, results, processed, i, disk, hub, prng,
                   raised, loads, templ_args, loaded, runs, arith>>

Next == LoadRaw \/ LoopBody \/ SinglePrompt \/ PushAll \/ PushSingle \/ Summary

Spec == Init /\ [][Next]_vars

(***************************************************************************)
(* Repeated loads: load_all_csv_files called again and again on the same   *)
(* files with the same ratio and seed, as successive runs of the script    *)
(* do.  Each call builds its generators anew from the seed.                *)
(***************************************************************************)
DetArgSets ==
    [sys_prompt : {"all"}, train_ratio : TrainRatios, seed : Seeds,
     output_dir : {OUTPUT_DIR}, push_to_hub : {FALSE}, hub_name : {NoneVal}]

DetInit ==
    /\ fs \in FileSystems
    /\ args \in DetArgSets
    /\ pc = "load"
    /\ raw_dataset = <<>>
    /\ results = <<>>
    /\ processed = <<>>
    /\ i = 1
    /\ disk = <<>>
    /\ hub = <<>>
    /\ log = <<>>
    /\ prng = <<>>
    /\ raised = NoneVal
    /\ loads = 0
    /\ templ_args = <<>>
    /\ loaded = NoLoad
    /\ runs = <<>>
    /\ arith = ArithIdle

\* line 150 in one more run of the script
LoadAgain ==
    /\ Len(runs) < MaxRuns
    /\ \E out \in load_all_csv_files(fs, args.train_ratio, args.seed, prng) :
          /\ runs' = Append(runs, out)
          /\ prng' = out.prng
          /\ loaded' = out
          /\ raw_dataset' = out.result
    /\ loads' = loads + 1
    /\ UNCHANGED <<fs, args, pc, results, processed, i, disk, hub, log, raised,
                   templ_args, arith>>

DetNext == LoadAgain

DetSpec == DetInit /\ [][DetNext]_vars

(***************************************************************************)
(* The sizes of the split alone: lines 81-83 of load_single_csv on files   *)
(* of up to MaxRowsArith rows, and the sizes load_all_csv_files combines   *)
(* (lines 99-100 and 108-109), with every ratio of one decimal.            *)
(***************************************************************************)
\* the row counts of the second file
SecondSizes == {0, 4}

\* lines 81-83: the lengths of df[:split_idx] and df[split_idx:]
split_sizes(n, train_ratio) ==
    LET idx == split_idx(n, train_ratio)
        cut == IF idx < n THEN idx ELSE n
    IN  [train |-> cut, test |-> n - cut]

ArithInit ==
    /\ arith \in [sizes : (0..MaxRowsArith) \X SecondSizes,
                  train_ratio : 1..(Tenths - 1), split : {<<>>}]
    /\ fs = [t \in TaskNames |-> MissingFile]
    /\ args \in [sys_prompt : {"all"}, train_ratio : {DEFAULT_TRAIN_RATIO},
                 seed : {DEFAULT_SEED}, output_dir : {OUTPUT_DIR},
                 push_to_hub : {FALSE}, hub_name : {NoneVal}]
    /\ pc = "load"
    /\ raw_dataset = <<>>
    /\ results = <<>>
    /\ processed = <<>>
    /\ i = 1
    /\ disk = <<>>
    /\ hub = <<>>
    /\ log = <<>>
    /\ prng = <<>>
    /\ raised = NoneVal
    /\ loads = 0
    /\ templ_args = <<>>
    /\ loaded = NoLoad
    /\ runs = <<>>

\* every file is split by its own row count
SplitSizes ==
    /\ arith.split = <<>>
    /\ arith' = [arith EXCEPT !.split =
                    [k \in 1..Len(arith.sizes) |->
                        split_sizes(arith.sizes[k], arith.train_ratio)]]
    /\ UNCHANGED <<fs, args, pc, raw_dataset, results, processed, i, disk, hub, log,
                   prng, raised, loads, templ_args, loaded, runs>>

ArithNext == SplitSizes

SplitSpec == ArithInit /\ [][ArithNext]_vars

(***************************************************************************)
(* Properties.                                                             *)
(***************************************************************************)
Range(seq) == {seq[k] : k \in 1..Len(seq)}

Count(seq, x) == Cardinality({k \in 1..Len(seq) : seq[k] = x})

\* the same records, each as many times, in any order
SameRecords(a, b) ==
    /\ Len(a) = Len(b)
    /\ \A x \in Range(a) \cup Range(b) : Count(a, x) = Count(b, x)

\* a column of a record, None when the record has no such column
Field(rec, c) == IF c \in DOMAIN rec THEN rec[c] ELSE NoneVal

Triple(rec) == <<Field(rec, "problem"), Field(rec, "answer"), Field(rec, "source")>>

PromptNames == {ALL_SYS_PROMPTS[k] : k \in 1..Len(ALL_SYS_PROMPTS)}

AllMode == args.sys_prompt = "all"

\* an artifact holding both splits
Complete(artifact) == DOMAIN artifact = {"train", "test"}

SplitNames == {"train", "test"}

\* C1: in a run over all prompts load_all_csv_files is called exactly once,
\* before the first create_dataset_for_prompt call; every such call gets the
\* corpus that load returned, and the corpus is still that one afterwards;
\* a run that ends with data has made one call per prompt.
C1_LoadOnceAndReused ==
    AllMode =>
        /\ pc # "load" => loads = 1
        /\ pc = "load" => loads = 0 /\ templ_args = <<>>
        /\ templ_args # <<>> =>
              /\ loaded.result # <<>>
              /\ raw_dataset = loaded.result
              /\ \A k \in 1..Len(templ_args) : templ_args[k] = loaded.result
        /\ (pc = "done" /\ loaded.result # <<>>) =>
              Len(templ_args) = Len(ALL_SYS_PROMPTS)

C1_Witness ==
    /\ AllMode
    /\ pc = "done"
    /\ loads = 1
    /\ Len(templ_args) = Len(ALL_SYS_PROMPTS)
    /\ Len(raw_dataset.train) >= 1
    /\ Len(raw_dataset.test) >= 1

\* an example with the content of its system entry blanked
SansSystem(example) == [example EXCEPT !.prompt[1].content = ""]

\* C2: the corpora saved for any two prompts of a run have the same train and
\* test sizes, the same (problem, answer, source) at every position, and
\* differ in nothing but the content of the system entry.
C2_VariantsShareRecords ==
    AllMode =>
        \A a, b \in 1..Len(results) :
            LET A == ArtifactAt(disk, results[a].path)
                B == ArtifactAt(disk, results[b].path)
            IN  /\ Complete(A) /\ Complete(B)
                /\ results[a].train_size = results[b].train_size
                /\ results[a].test_size = results[b].test_size
                /\ \A s \in SplitNames :
                      /\ Len(A[s]) = Len(B[s])
                      /\ \A k \in 1..Len(A[s]) :
                            /\ Triple(A[s][k]) = Triple(B[s][k])
                            /\ SansSystem(A[s][k]) = SansSystem(B[s][k])

C2_Witness ==
    /\ AllMode
    /\ Len(results) >= 2
    /\ LET A == ArtifactAt(disk, results[1].path)
           B == ArtifactAt(disk, results[2].path)
       IN  /\ Len(A.train) >= 2
           /\ Len(A.test) >= 1
           /\ A.train[1].prompt[1].content # B.train[1].prompt[1].content

\* the text the user turn carries: question when the record has one
ProblemTextOf(rec) == IF "question" \in DOMAIN rec THEN rec.question ELSE rec.problem

\* C7: every saved split has one example per raw record, in the raw order;
\* each example is its raw record plus a prompt of exactly two entries, system
\* with the prompt's text and user with "\n\nPROBLEM: " + problem_text + "\n\n",
\* problem_text being the question column when present, else problem.
C7_PromptShape ==
    \A name \in PromptNames :
        LET artifact == ArtifactAt(disk, save_path(args.output_dir, name))
        IN  \A s \in DOMAIN artifact :
                /\ Len(artifact[s]) = Len(raw_dataset[s])
                /\ \A k \in 1..Len(artifact[s]) :
                      LET ex  == artifact[s][k]
                          rec == raw_dataset[s][k]
                      IN  /\ DOMAIN ex = DOMAIN rec \cup {"prompt"}
                          /\ \A c \in DOMAIN rec : ex[c] = rec[c]
                          /\ Len(ex.prompt) = 2
                          /\ ex.prompt[1].role = "system"
                          /\ ex.prompt[1].content = get_sys_prompt(name)
                          /\ ex.prompt[2].role = "user"
                          /\ ex.prompt[2].content =
                                "\n\nPROBLEM: " \o ProblemTextOf(rec) \o "\n\n"

C7_Witness ==
    \E name \in PromptNames :
        LET artifact == ArtifactAt(disk, save_path(args.output_dir, name))
        IN  /\ Complete(artifact)
            /\ Len(artifact.train) >= 2
            /\ "question" \in DOMAIN artifact.train[1]
            /\ "problem" \in DOMAIN artifact.train[1]
            /\ artifact.train[1].question # artifact.train[1].problem

\* the configured files that are there, in the configured order
Resolved == SelectSeq(CSV_FILES, LAMBDA t : fs[t].exists)

Missing == SelectSeq(CSV_FILES, LAMBDA t : ~fs[t].exists)

\* the rows a load call took from the k-th file it read
TakenFrom(out, k) == out.all_train[k] \o out.all_test[k]

\* C6: a missing file does not fail the load: load_all_csv_files skips it with
\* a warning and goes on; it reads exactly the files that are there, in the
\* configured order, and the combined corpus, when there is one, holds the rows
\* of those files and no others.
C6_MissingSourceSkipped ==
    loads >= 1 =>
        /\ loaded.raised = NoneVal
        /\ loaded.names = Resolved
        /\ loaded.skipped = Missing
        /\ \A k \in 1..Len(Missing) :
              \E j \in 1..Len(log) : log[j] = "Warning: File not found - " \o Missing[k]
        /\ Len(loaded.all_train) = Len(Resolved)
        /\ Len(loaded.all_test) = Len(Resolved)
        /\ \A k \in 1..Len(Resolved) :
              SameRecords(TakenFrom(loaded, k), AnswerAsStr(fs[Resolved[k]].rows))
        /\ Resolved # <<>> =>
              /\ raw_dataset = loaded.result
              /\ Complete(raw_dataset)
              /\ SameRecords(raw_dataset.train, Concat(loaded.all_train))
              /\ SameRecords(raw_dataset.test, Concat(loaded.all_test))
              /\ \A rec \in Range(raw_dataset.train) \cup Range(raw_dataset.test) :
                    \E k \in 1..Len(Resolved) :
                        rec.source = "LifeSnaps_" \o Resolved[k]

C6_Witness ==
    /\ pc = "done"
    /\ loads = 1
    /\ Len(Missing) = 1
    /\ Len(Resolved) = 1
    /\ Len(fs[Resolved[1]].rows) >= 2
    /\ Len(raw_dataset.train) + Len(raw_dataset.test) = Len(fs[Resolved[1]].rows)

\* the permutation the table of generators holds for a shuffle
PermOf(kind, n) == prng[PrngKey(kind, args.seed, n)]

\* C8: every call of load_all_csv_files on the same files with the same ratio
\* and seed returns the same train and test sequences and the same per-file
\* halves, position for position; and every shuffle, in every call, applied
\* the one permutation that belongs to its generator, the seed and the length
\* of what it shuffled.
C8_SameSeedSameOrder ==
    /\ \A a, b \in 1..Len(runs) :
          /\ runs[a].result = runs[b].result
          /\ runs[a].all_train = runs[b].all_train
          /\ runs[a].all_test = runs[b].all_test
    /\ \A a \in 1..Len(runs) :
          /\ \A k \in 1..Len(runs[a].names) :
                LET rows == AnswerAsStr(fs[runs[a].names[k]].rows)
                IN  TakenFrom(runs[a], k) =
                        ApplyPerm(rows, PermOf("pandas", Len(rows)))
          /\ runs[a].result # <<>> =>
                /\ runs[a].result.train =
                      ApplyPerm(Concat(runs[a].all_train),
                                PermOf("datasets", Len(runs[a].result.train)))
                /\ runs[a].result.test =
                      ApplyPerm(Concat(runs[a].all_test),
                                PermOf("datasets", Len(runs[a].result.test)))

C8_Witness ==
    /\ Len(runs) >= 2
    /\ Len(runs[2].names) = 2
    /\ Len(fs[CSV_FILES[1]].rows) = 2
    /\ Len(fs[CSV_FILES[2]].rows) = 2
    /\ PermOf("pandas", 2) = <<2, 1>>
    /\ runs[2].result.train # Concat(runs[2].all_train)

\* the run ended in an exception of create_dataset_for_prompt
TemplatingFailed == pc = "raised" /\ raised \in {"OSError", "KeyError"}

\* C9: when create_dataset_for_prompt fails for one prompt of a run over all
\* prompts, the artifact saved for every earlier prompt is still complete,
\* with as many train and test examples as the raw corpus and its own system
\* text, and the raw corpus is the one that was loaded.
C9_EarlierArtifactsIntact ==
    (AllMode /\ TemplatingFailed) =>
        /\ raw_dataset = loaded.result
        /\ Len(results) = i - 1
        /\ \A j \in 1..Len(results) :
              LET artifact == ArtifactAt(disk, save_path(args.output_dir,
                                                         ALL_SYS_PROMPTS[j]))
              IN  /\ results[j].name = ALL_SYS_PROMPTS[j]
                  /\ results[j].path = save_path(args.output_dir, ALL_SYS_PROMPTS[j])
                  /\ Complete(artifact)
                  /\ \A s \in SplitNames :
                        /\ Len(artifact[s]) = Len(raw_dataset[s])
                        /\ \A k \in 1..Len(artifact[s]) :
                              /\ artifact[s][k].prompt[1].content =
                                    get_sys_prompt(ALL_SYS_PROMPTS[j])
                              /\ Triple(artifact[s][k]) = Triple(raw_dataset[s][k])

C9_Witness ==
    /\ AllMode
    /\ TemplatingFailed
    /\ raised = "OSError"
    /\ i = 3
    /\ Len(results) = 2
    /\ Len(raw_dataset.train) >= 1
    /\ Len(raw_dataset.test) >= 1
    /\ DOMAIN ArtifactAt(disk, save_path(args.output_dir, ALL_SYS_PROMPTS[3]))
          = {"train"}

NoSourceResolves == \A t \in TaskNames : ~fs[t].exists

Printed(line) == \E j \in 1..Len(log) : log[j] = line

\* C3: in a run over all prompts, when no configured file is there, load_all_csv_files reports that there
\* is no data, no create_dataset_for_prompt call is made, nothing is saved, and
\* the run does not go on to finish as a completed run.
C3_NoDataStopsRun ==
    (AllMode /\ NoSourceResolves /\ loads >= 1) =>
        /\ Printed("Error: No valid CSV files found!")
        /\ loaded.result = <<>>
        /\ templ_args = <<>>
        /\ disk = <<>>
        /\ pc # "done"
        /\ ~Printed("Processing complete!")

\* C10: a push that fails does not end the run: the artifact on disk is still
\* complete and the run goes on to the other pushes and to its summary.
C10_PushFailureNonFatal ==
    (AllMode /\ raised = "HubError") =>
        /\ pc \in {"push", "summary", "done"}
        /\ \A path \in DOMAIN disk : Complete(disk[path])

\* floor(n * ratio) for a ratio given in tenths
FloorOfRatio(n, train_ratio) == (n * train_ratio) \div Tenths

\* C4: load_single_csv cuts a file of n rows at floor(n * ratio): the train
\* half has floor(n * ratio) rows, the test half the rest, the two halves have
\* n rows together, and a file without rows gives two empty halves.
C4_CutAtFloor ==
    arith.split # <<>> =>
        \A k \in 1..Len(arith.sizes) :
            LET n == arith.sizes[k]
            IN  /\ arith.split[k].train = FloorOfRatio(n, arith.train_ratio)
                /\ arith.split[k].test = n - FloorOfRatio(n, arith.train_ratio)
                /\ arith.split[k].train + arith.split[k].test = n
                /\ n = 0 => arith.split[k].train = 0 /\ arith.split[k].test = 0

RECURSIVE SumOver(_, _)
SumOver(seq, c) == IF seq = <<>> THEN 0 ELSE Head(seq)[c] + SumOver(Tail(seq), c)

RECURSIVE SumFloors(_, _)
SumFloors(sizes, train_ratio) ==
    IF sizes = <<>> THEN 0
    ELSE FloorOfRatio(Head(sizes), train_ratio) + SumFloors(Tail(sizes), train_ratio)

RECURSIVE Sum(_)
Sum(sizes) == IF sizes = <<>> THEN 0 ELSE Head(sizes) + Sum(Tail(sizes))

\* C5: the ratio is applied to each file's own row count: the combined train
\* partition has the sum over the files of floor(n_i * ratio) rows and the
\* combined test partition the rest; files of 10 and 4 rows at ratio 0.8 give
\* 11 and 3.
C5_PerSourceRatio ==
    arith.split # <<>> =>
        /\ SumOver(arith.split, "train") = SumFloors(arith.sizes, arith.train_ratio)
        /\ SumOver(arith.split, "test") =
              Sum(arith.sizes) - SumFloors(arith.sizes, arith.train_ratio)
        /\ (arith.sizes = <<10, 4>> /\ arith.train_ratio = 8) =>
              /\ SumOver(arith.split, "train") = 11
              /\ SumOver(arith.split, "test") = 3

====
